---- MODULE Spec2Model ----
(***************************************************************************)
(* Model of astro-mail-obfuscation 2.3.4: the build-time integration       *)
(* (encryptionMethods, base62Encode, modifyHtml, processHtmlFile, the      *)
(* astro:build:done hook) and the client script (class                     *)
(* AstroMailObfuscation: init, deobfuscateContent, getKeyAndSalt,          *)
(* decryptionMethods, hexStringToUint8Array, base62Decode).                *)
(*                                                                         *)
(* A JavaScript string is a sequence of UTF-16 code units (naturals), a    *)
(* Buffer / Uint8Array a sequence of naturals below 256.  A call that may  *)
(* return undefined / null, or throw, yields a record [ok, val].           *)
(***************************************************************************)
EXTENDS Integers, Sequences, FiniteSets, TLC

VARIABLES
  content,    \* codec: the string handed to encrypt
  key,        \* codec: options.userKey
  salt,       \* codec: options.userSalt
  method,     \* codec: the method id "1" | "2" | "3" in use ("" before encrypt)
  encrypted,  \* codec: what encrypt returned
  decrypted,  \* codec: what decrypt returned
  stage,      \* codec: "input" | "encoded" | "decoded" | "off"
  options,    \* the options record built by astroMailObfuscation
  html,       \* modifyHtml: the document it is given
  modifiedHtml,          \* modifyHtml: the document it returns
  document,              \* browser: the document of the rendered page
  decryptionPerformed,   \* browser: the field of class AstroMailObfuscation
  passes,     \* browser: calls of deobfuscateContent on this page instance
  mutations,  \* browser: DOM writes made by the latest deobfuscateContent
  events,     \* browser: events delivered so far
  hook,       \* batch: "idle" | "running" | "completed" | "error" | "off"
  queue,      \* batch: the limiter's queue of file tasks not yet started
  activeCount,           \* batch: the limiter's count of running tasks
  task,       \* batch: per file, the position and history of its task
  disk,       \* batch: per file, the content on disk
  original    \* batch: per file, the content on disk before the run

codecVars == <<content, method, encrypted, decrypted, stage>>

secretVars == <<key, salt>>

docVars == <<options, html, modifiedHtml>>

pageVars == <<document, decryptionPerformed, passes, mutations, events>>

batchVars == <<hook, queue, activeCount, task, disk, original>>

vars ==
  <<content, key, salt, method, encrypted, decrypted, stage, options, html,
    modifiedHtml, document, decryptionPerformed, passes, mutations, events,
    hook, queue, activeCount, task, disk, original>>

----------------------------------------------------------------------------
(* Bounds of the model and program constants.                              *)

\* longest short content string enumerated (code units)
MaxContentLen == 2

\* longest user-supplied key enumerated (code units)
MaxUserKeyLen == 2

\* randomBytes(16) in generateUserKey
KeyBytes == 16

\* generateUserSalt(8), and saltLength in getKeyAndSalt
SaltLength == 8

----------------------------------------------------------------------------
(* Values and helpers.                                                     *)

Undefined == [ok |-> FALSE, val |-> <<>>]

Some(v) == [ok |-> TRUE, val |-> v]

\* the values of the variables a specification does not use
CodecIdle ==
  /\ content = <<>> /\ method = "" /\ encrypted = Undefined
  /\ decrypted = Undefined /\ stage = "off"

DocIdle == options = <<>> /\ html = Undefined /\ modifiedHtml = Undefined

PageIdle ==
  /\ document = Undefined /\ decryptionPerformed = FALSE
  /\ passes = 0 /\ mutations = 0 /\ events = 0

BatchIdle ==
  /\ hook = "off" /\ queue = <<>> /\ activeCount = 0
  /\ task = <<>> /\ disk = <<>> /\ original = <<>>

\* JavaScript's a ^ b on non-negative integers
RECURSIVE BitXor(_, _)
BitXor(a, b) ==
  IF a = 0 THEN b
  ELSE IF b = 0 THEN a
  ELSE ((a + b) % 2) + 2 * BitXor(a \div 2, b \div 2)

\* all sequences over S of length lo..hi
SeqsOf(S, lo, hi) == UNION {[1..n -> S] : n \in lo..hi}

\* str.split("").reverse().join("")
Reverse(s) == [i \in 1..Len(s) |-> s[Len(s) + 1 - i]]

\* the digits of d from its first non-zero digit on
StripLeadingZeros(d) ==
  LET nz == {i \in 1..Len(d) : d[i] # 0} IN
  IF nz = {} THEN <<>>
  ELSE SubSeq(d, CHOOSE i \in nz : \A j \in nz : i <= j, Len(d))

IsHighSurrogate(c) == c \in 55296..56319

IsLowSurrogate(c) == c \in 56320..57343

\* the UTF-8 bytes of code unit i of s: a surrogate pair gives four bytes at its
\* high half and none at its low half, a lone surrogate gives U+FFFD
Utf8Unit(s, i) ==
  LET c == s[i] IN
  IF c < 128 THEN <<c>>
  ELSE IF c < 2048 THEN <<192 + (c \div 64), 128 + (c % 64)>>
  ELSE IF IsHighSurrogate(c) /\ i < Len(s) /\ IsLowSurrogate(s[i + 1])
    THEN LET cp == 65536 + (c - 55296) * 1024 + (s[i + 1] - 56320) IN
         <<240 + (cp \div 262144), 128 + ((cp \div 4096) % 64),
           128 + ((cp \div 64) % 64), 128 + (cp % 64)>>
  ELSE IF IsLowSurrogate(c) /\ i > 1 /\ IsHighSurrogate(s[i - 1]) THEN <<>>
  ELSE IF IsHighSurrogate(c) \/ IsLowSurrogate(c) THEN <<239, 191, 189>>
  ELSE <<224 + (c \div 4096), 128 + ((c \div 64) % 64), 128 + (c % 64)>>

RECURSIVE Utf8EncodeRange(_, _, _)
Utf8EncodeRange(s, lo, hi) ==
  IF lo > hi THEN <<>>
  ELSE IF lo = hi THEN Utf8Unit(s, lo)
  ELSE LET mid == (lo + hi) \div 2 IN
       Utf8EncodeRange(s, lo, mid) \o Utf8EncodeRange(s, mid + 1, hi)

\* Buffer.from(str, "utf-8")
Utf8Encode(s) == Utf8EncodeRange(s, 1, Len(s))

\* the UTF-16 code units of one decoded code point
CodeUnits(cp) ==
  IF cp < 65536 THEN <<cp>>
  ELSE <<55296 + ((cp - 65536) \div 1024), 56320 + ((cp - 65536) % 1024)>>

\* the state of the UTF-8 decoder between bytes, with the code units put out
DecoderStart(out) ==
  [cp |-> 0, needed |-> 0, seen |-> 0, lo |-> 128, hi |-> 191, out |-> out]

\* a byte met while no sequence is open
DecodeLead(st, x) ==
  IF x < 128 THEN DecoderStart(Append(st.out, x))
  ELSE IF x \in 194..223
    THEN [cp |-> x - 192, needed |-> 1, seen |-> 0, lo |-> 128, hi |-> 191,
          out |-> st.out]
  ELSE IF x \in 224..239
    THEN [cp |-> x - 224, needed |-> 2, seen |-> 0,
          lo |-> IF x = 224 THEN 160 ELSE 128, hi |-> IF x = 237 THEN 159 ELSE 191,
          out |-> st.out]
  ELSE IF x \in 240..244
    THEN [cp |-> x - 240, needed |-> 3, seen |-> 0,
          lo |-> IF x = 240 THEN 144 ELSE 128, hi |-> IF x = 244 THEN 143 ELSE 191,
          out |-> st.out]
  ELSE DecoderStart(Append(st.out, 65533))

\* one byte through the UTF-8 decoder of new TextDecoder(): malformed input
\* yields U+FFFD (65533), and the byte that broke a sequence is read again
DecodeByte(st, x) ==
  IF st.needed = 0 THEN DecodeLead(st, x)
  ELSE IF x < st.lo \/ x > st.hi
    THEN DecodeLead(DecoderStart(Append(st.out, 65533)), x)
  ELSE LET cp2 == st.cp * 64 + (x - 128) IN
    IF st.seen + 1 # st.needed
      THEN [cp |-> cp2, needed |-> st.needed, seen |-> st.seen + 1,
            lo |-> 128, hi |-> 191, out |-> st.out]
      ELSE DecoderStart(st.out \o CodeUnits(cp2))

\* the bytes lo..hi through the decoder, in order: the left half is evaluated
\* before the right half is entered
RECURSIVE Utf8DecodeRange(_, _, _, _)
Utf8DecodeRange(b, lo, hi, st) ==
  IF lo > hi THEN st
  ELSE IF lo = hi THEN DecodeByte(st, b[lo])
  ELSE LET mid == (lo + hi) \div 2
           left == Utf8DecodeRange(b, lo, mid, st)
       IN IF left.needed >= 0 THEN Utf8DecodeRange(b, mid + 1, hi, left) ELSE left

\* new TextDecoder().decode(bytes): UTF-8, an unfinished sequence at the end
\* yields U+FFFD, a leading byte order mark is dropped
TextDecode(b) ==
  LET st == Utf8DecodeRange(b, 1, Len(b), DecoderStart(<<>>))
      u == IF st.needed # 0 THEN Append(st.out, 65533) ELSE st.out
  IN IF Len(b) >= 3 /\ b[1] = 239 /\ b[2] = 187 /\ b[3] = 191 THEN Tail(u) ELSE u

\* one hexadecimal digit, lower case, as a code unit
HexDigit(n) == IF n < 10 THEN 48 + n ELSE 87 + n

\* a variant that writes one digit for each byte
BufferToHexLowDigit(b) == [i \in 1..Len(b) |-> HexDigit(b[i] % 16)]

\* buffer.toString("hex")
BufferToHex(b) ==
  [i \in 1..(2 * Len(b)) |->
     IF i % 2 = 1 THEN HexDigit(b[(i + 1) \div 2] \div 16)
     ELSE HexDigit(b[i \div 2] % 16)]

\* the value of a hexadecimal digit, -1 for any other code unit
HexVal(c) ==
  IF c \in 48..57 THEN c - 48
  ELSE IF c \in 97..102 THEN c - 87
  ELSE IF c \in 65..70 THEN c - 55
  ELSE 0 - 1

\* parseInt(pair, 16) stored into a Uint8Array: NaN is stored as 0
ParseHexPair(s) ==
  IF s = <<>> \/ HexVal(s[1]) < 0 THEN 0
  ELSE IF Len(s) = 1 \/ HexVal(s[2]) < 0 THEN HexVal(s[1])
  ELSE 16 * HexVal(s[1]) + HexVal(s[2])

\* the cyclic XOR loops; the result is stored into a Uint8Array / Buffer.
\* With an empty key, i % 0 is NaN, the key unit read is NaN or undefined, and
\* x ^ NaN is x.
XorCyclic(data, k) ==
  [i \in 1..Len(data) |->
     IF k = <<>> THEN data[i]
     ELSE BitXor(data[i], k[((i - 1) % Len(k)) + 1]) % 256]

XorCyclic2(data, k, s) ==
  [i \in 1..Len(data) |->
     BitXor(BitXor(data[i], k[((i - 1) % Len(k)) + 1]),
            s[((i - 1) % Len(s)) + 1]) % 256]

\* build time: key.charCodeAt(key.length - 1) > key.charCodeAt(key.length - 2);
\* for a key of one code unit the right-hand side is NaN and the comparison is
\* false
ShouldReverseBuild(k) == Len(k) >= 2 /\ k[Len(k)] > k[Len(k) - 1]

\* run time: the same comparison, written again in the client script
ShouldReverseClient(k) == Len(k) >= 2 /\ k[Len(k)] > k[Len(k) - 1]

----------------------------------------------------------------------------
(* Base64 (Buffer.toString("base64") and atob).                            *)

Base64Char(i) ==
  IF i < 26 THEN 65 + i
  ELSE IF i < 52 THEN 71 + i
  ELSE IF i < 62 THEN i - 4
  ELSE IF i = 62 THEN 43 ELSE 47

Base64Index(c) ==
  IF c \in 65..90 THEN c - 65
  ELSE IF c \in 97..122 THEN c - 71
  ELSE IF c \in 48..57 THEN c + 4
  ELSE IF c = 43 THEN 62
  ELSE IF c = 47 THEN 63
  ELSE 0 - 1

\* buffer.toString("base64"): four characters for each group of three bytes,
\* "=" (61) where the last group has no second or third byte
Base64Encode(b) ==
  LET n == Len(b)
      At(i) == IF i <= n THEN b[i] ELSE 0
  IN [p \in 1..(4 * ((n + 2) \div 3)) |->
        LET g == 3 * ((p - 1) \div 4)
            k == (p - 1) % 4
        IN IF k = 0 THEN Base64Char(At(g + 1) \div 4)
           ELSE IF k = 1 THEN Base64Char((At(g + 1) % 4) * 16 + (At(g + 2) \div 16))
           ELSE IF k = 2
             THEN (IF g + 2 > n THEN 61
                   ELSE Base64Char((At(g + 2) % 16) * 4 + (At(g + 3) \div 64)))
           ELSE (IF g + 3 > n THEN 61 ELSE Base64Char(At(g + 3) % 64))]

\* the bytes of a sequence of six-bit values: three for each group of four, one
\* or two for a last group of two or three
Base64Groups(d) ==
  LET n == Len(d)
      At(i) == IF i <= n THEN d[i] ELSE 0
      count == 3 * (n \div 4) + (IF n % 4 = 2 THEN 1 ELSE IF n % 4 = 3 THEN 2 ELSE 0)
  IN [j \in 1..count |->
        LET g == 4 * ((j - 1) \div 3)
            k == (j - 1) % 3
        IN IF k = 0 THEN At(g + 1) * 4 + (At(g + 2) \div 16)
           ELSE IF k = 1 THEN (At(g + 2) % 16) * 16 + (At(g + 3) \div 4)
           ELSE (At(g + 3) % 4) * 64 + At(g + 4)]

\* atob(data): ok = FALSE when it throws InvalidCharacterError
Atob(data) ==
  LET nows == SelectSeq(data, LAMBDA c : c \notin {9, 10, 12, 13, 32})
      n == Len(nows)
      cut == IF n % 4 = 0 /\ n >= 1 /\ nows[n] = 61
               THEN (IF n >= 2 /\ nows[n - 1] = 61 THEN 2 ELSE 1)
               ELSE 0
      body == SubSeq(nows, 1, n - cut)
  IN IF Len(body) % 4 = 1 \/ \E i \in 1..Len(body) : Base64Index(body[i]) < 0
       THEN Undefined
       ELSE Some(Base64Groups([i \in 1..Len(body) |-> Base64Index(body[i])]))

----------------------------------------------------------------------------
(* Base62 over BigInt.  A BigInt is a canonical big-endian digit sequence:  *)
(* no leading zero digit, zero is the empty sequence.  base62Encode works   *)
(* on digits of three bytes (base 16777216), base62Decode on digits of one  *)
(* byte (base 256).                                                         *)

Base62Char(i) ==
  IF i < 10 THEN 48 + i ELSE IF i < 36 THEN 55 + i ELSE 61 + i

Base62Index(c) ==
  IF c \in 48..57 THEN c - 48
  ELSE IF c \in 65..90 THEN c - 55
  ELSE IF c \in 97..122 THEN c - 61
  ELSE 0 - 1

\* BigInt("0x" + buffer.toString("hex")): the leading zero bytes carry no
\* value.  The bytes are taken three at a time from the right.
BigIntFromBuffer(buffer) ==
  LET n == Len(buffer)
      count == (n + 2) \div 3
      At(i) == IF i >= 1 THEN buffer[i] ELSE 0
  IN StripLeadingZeros(
       [j \in 1..count |->
          LET last == n - 3 * (count - j) IN
          65536 * At(last - 2) + 256 * At(last - 1) + At(last)])

\* long division of the digits lo..hi by 62, carry coming in from the left
RECURSIVE LongDivide(_, _, _, _)
LongDivide(d, lo, hi, carry) ==
  IF lo > hi THEN [q |-> <<>>, r |-> carry]
  ELSE IF lo = hi
    THEN LET cur == carry * 16777216 + d[lo] IN [q |-> <<cur \div 62>>, r |-> cur % 62]
  ELSE LET mid == (lo + hi) \div 2
           a == LongDivide(d, lo, mid, carry)
           b == LongDivide(d, mid + 1, hi, a.r)
       IN IF a.r < 62 THEN [q |-> a.q \o b.q, r |-> b.r] ELSE a

\* value / base and value % base
DivMod62(value) ==
  LET x == LongDivide(value, 1, Len(value), 0) IN
  [q |-> StripLeadingZeros(x.q), r |-> x.r]

\* k rounds of the loop "while (value > 0)": the characters put in front of
\* result, and the value left
RECURSIVE Base62Loop(_, _)
Base62Loop(value, k) ==
  IF k = 0 \/ value = <<>> THEN [out |-> <<>>, rest |-> value]
  ELSE IF k = 1
    THEN LET dm == DivMod62(value) IN [out |-> <<Base62Char(dm.r)>>, rest |-> dm.q]
  ELSE LET low == Base62Loop(value, k \div 2)
           high == Base62Loop(low.rest, k - (k \div 2))
       IN IF Len(low.rest) <= Len(value)
            THEN [out |-> high.out \o low.out, rest |-> high.rest]
            ELSE low

\* the loop ends within five rounds for each digit, as 62^5 > 16777216
base62Encode(buffer) ==
  LET value == BigIntFromBuffer(buffer) IN
  IF value = <<>> THEN <<48>> ELSE Base62Loop(value, 5 * Len(value)).out

\* the digits lo..hi times 62, carry coming in from the right
RECURSIVE MulCarry(_, _, _, _)
MulCarry(d, lo, hi, carry) ==
  IF lo > hi THEN [out |-> <<>>, c |-> carry]
  ELSE IF lo = hi
    THEN LET cur == d[lo] * 62 + carry IN [out |-> <<cur % 256>>, c |-> cur \div 256]
  ELSE LET mid == (lo + hi) \div 2
           r == MulCarry(d, mid + 1, hi, carry)
           l == MulCarry(d, lo, mid, r.c)
       IN IF r.c < 62 THEN [out |-> l.out \o r.out, c |-> l.c] ELSE r

\* value * base + BigInt(index)
MulAdd62(value, index) ==
  LET x == MulCarry(value, 1, Len(value), index) IN
  IF x.c = 0 THEN x.out ELSE <<x.c>> \o x.out

\* the loop "for (const char of str)" over characters lo..hi
RECURSIVE Base62Value(_, _, _, _)
Base62Value(str, lo, hi, value) ==
  IF lo > hi THEN value
  ELSE IF lo = hi THEN MulAdd62(value, Base62Index(str[lo]))
  ELSE LET mid == (lo + hi) \div 2
           left == Base62Value(str, lo, mid, value)
       IN IF Len(left) >= Len(value) THEN Base62Value(str, mid + 1, hi, left) ELSE left

\* value.toString(16)
BigIntToHex(value) ==
  IF value = <<>> THEN <<48>>
  ELSE LET h == BufferToHex(value) IN IF Head(h) = 48 THEN Tail(h) ELSE h

\* array[i] = parseInt(hex.substring(i * 2, i * 2 + 2), 16), for i < length
HexPairsToBytes(h, length) ==
  [i \in 1..length |-> ParseHexPair(SubSeq(h, 2 * i - 1, IF 2 * i <= Len(h) THEN 2 * i ELSE Len(h)))]

\* ok = FALSE when it throws "Invalid character in Base62 string"
base62Decode(str) ==
  IF \E i \in 1..Len(str) : Base62Index(str[i]) < 0 THEN Undefined
  ELSE LET hex0 == BigIntToHex(Base62Value(str, 1, Len(str), <<>>))
           hex == IF Len(hex0) % 2 = 1 THEN <<48>> \o hex0 ELSE hex0
       IN Some(HexPairsToBytes(hex, Len(hex) \div 2))

\* new Uint8Array(length) truncates a length that is no integer, and the store
\* past the end of the array in the last round of the loop is dropped: a string
\* of odd length yields the bytes of its complete pairs.  It never throws.
hexStringToUint8Array(hexString) ==
  Some(HexPairsToBytes(hexString, Len(hexString) \div 2))

----------------------------------------------------------------------------
(* Build time: encryptionMethods.                                          *)

\* a variant of method 1 that does not look at the content before it encodes
Encrypt1Unchecked(c, k) ==
  IF k = <<>> THEN Undefined
  ELSE Some(BufferToHex(XorCyclic(Utf8Encode(c), Utf8Encode(k))))

\* In the three methods each buffer is bound as the member of a one-element
\* set, so that it is computed once.
Encrypt1(c, k) ==
  IF c = <<>> \/ k = <<>> THEN Undefined
  ELSE CHOOSE out \in
         { Some(BufferToHex(encryptedBuffer)) :
             encryptedBuffer \in { XorCyclic(contentBuffer, keyBuffer) :
                                     contentBuffer \in {Utf8Encode(c)},
                                     keyBuffer \in {Utf8Encode(k)} } } : TRUE

Encrypt2(c, k) ==
  IF c = <<>> \/ k = <<>> THEN Undefined
  ELSE CHOOSE out \in
         { Some(IF ShouldReverseBuild(k) THEN Reverse(base64) ELSE base64) :
             base64 \in { Base64Encode(xorResult) :
                            xorResult \in { XorCyclic(contentBuffer, keyBuffer) :
                                              contentBuffer \in {Utf8Encode(c)},
                                              keyBuffer \in {Utf8Encode(k)} } } } : TRUE

Encrypt3(c, k, s) ==
  IF c = <<>> \/ k = <<>> \/ s = <<>> THEN Undefined
  ELSE CHOOSE out \in
         { Some(base62Encode(encryptedBuffer)) :
             encryptedBuffer \in { XorCyclic2(contentBuffer, keyBuffer, saltBuffer) :
                                     contentBuffer \in {Utf8Encode(c)},
                                     keyBuffer \in {Utf8Encode(k)},
                                     saltBuffer \in {Utf8Encode(s)} } } : TRUE

\* encryptionMethods[m].encrypt(c, k, s)
Encrypt(m, c, k, s) ==
  IF m = "1" THEN Encrypt1(c, k)
  ELSE IF m = "2" THEN Encrypt2(c, k)
  ELSE Encrypt3(c, k, s)

----------------------------------------------------------------------------
(* Run time: decryptionMethods.  The key and the salt are read by          *)
(* charCodeAt, one code unit at a time.                                    *)

\* a decoder that reads the key one position ahead
Decrypt1KeyAhead(data, k) ==
  LET dataBytes == hexStringToUint8Array(data) IN
  IF ~dataBytes.ok THEN Undefined
  ELSE Some(TextDecode([i \in 1..Len(dataBytes.val) |->
                          BitXor(dataBytes.val[i], k[(i % Len(k)) + 1]) % 256]))

Decrypt1(data, k) ==
  LET dataBytes == hexStringToUint8Array(data) IN
  IF ~dataBytes.ok THEN Undefined
  ELSE Some(TextDecode(XorCyclic(dataBytes.val, k)))

Decrypt2(data, k) ==
  LET base64 == IF ShouldReverseClient(k) THEN Reverse(data) ELSE data
      dataBytes == Atob(base64)
  IN IF ~dataBytes.ok THEN Undefined
     ELSE Some(TextDecode(XorCyclic(dataBytes.val, k)))

Decrypt3(data, k, s) ==
  IF s = <<>> THEN Undefined
  ELSE LET dataBytes == base62Decode(data) IN
       IF ~dataBytes.ok THEN Undefined
       ELSE Some(TextDecode(XorCyclic2(dataBytes.val, k, s)))

\* this.decryptionMethods[type] is a function.  decryptionMethods is an object
\* literal, so the lookup also finds what Object.prototype holds; of those
\* names "toString" and "constructor" are enumerated.
HasMethod(type) == type \in {"1", "2", "3", "toString", "constructor"}

\* this.decryptionMethods[type](data, key, salt), the function called without
\* receiver: Object.prototype.toString returns "[object Undefined]", and
\* Object(data) returns a String object, which setAttribute and innerHTML
\* turn into data again.  Any other type has no function.
Decrypt(m, data, k, s) ==
  IF m = "1" THEN Decrypt1(data, k)
  ELSE IF m = "2" THEN Decrypt2(data, k)
  ELSE IF m = "3" THEN Decrypt3(data, k, s)
  ELSE IF m = "toString"
    THEN Some(<<91, 111, 98, 106, 101, 99, 116, 32, 85, 110, 100, 101, 102, 105,
                110, 101, 100, 93>>)
  ELSE IF m = "constructor" THEN Some(data)
  ELSE Undefined

----------------------------------------------------------------------------
(* Secrets.                                                                *)

\* "0123456789abcdef" repeated: the unvaried part of an enumerated key
PatternChar(i) == HexDigit(i % 16)

\* generateUserKey(): 2 * KeyBytes hexadecimal digits.  Enumerated: the first
\* digit and the last two digits vary, the rest follows the pattern.
GeneratedKeys ==
  { [i \in 1..(2 * KeyBytes) |->
       IF i = 1 THEN h
       ELSE IF i = 2 * KeyBytes - 1 THEN t[1]
       ELSE IF i = 2 * KeyBytes THEN t[2]
       ELSE PatternChar(i)] :
    h \in {49, 97}, t \in {<<48, 102>>, <<102, 48>>} }

\* generateUserSalt(8): SaltLength letters and digits.  Enumerated: the
\* first character varies.
GeneratedSalts ==
  { [i \in 1..SaltLength |-> IF i = 1 THEN h ELSE Base62Char(i)] : h \in {80, 113} }

\* options.userKey supplied by the user: any non-empty string
UserKeys == SeqsOf({97, 233}, 1, MaxUserKeyLen)

\* options.userSalt supplied by the user
UserSalts == { [i \in 1..SaltLength |-> IF i = 1 THEN h ELSE Base62Char(i)] : h \in {233} }

\* "mailto:test@example.com" followed by "test@example.com"
LongText ==
  <<109, 97, 105, 108, 116, 111, 58, 116, 101, 115, 116, 64, 101, 120, 97, 109,
    112, 108, 101, 46, 99, 111, 109, 116, 101, 115, 116, 64, 101, 120, 97, 109,
    112, 108, 101, 46, 99, 111, 109>>

\* "a", "@" and a character of two UTF-8 bytes.  U+FEFF is not enumerated: a
\* leading byte order mark is dropped by TextDecoder, and the claims on the
\* codecs are about the byte sequences.
ContentChars == {97, 64, 233}

\* the strings of at most MaxContentLen characters, and the long text after
\* each character
Contents ==
  SeqsOf(ContentChars, 0, MaxContentLen)
    \cup {c \o LongText : c \in SeqsOf(ContentChars, 1, 1)}

----------------------------------------------------------------------------
(* The codec specification: one encrypt call at build time, one decrypt    *)
(* call at run time on what it returned.                                   *)

\* encrypt is also specified for a key or a salt that is missing: the empty
\* string stands for "", undefined and null, which encrypt does not tell apart
CodecInit ==
  /\ content \in Contents
  /\ key \in GeneratedKeys \cup UserKeys \cup {<<>>}
  /\ salt \in GeneratedSalts \cup UserSalts \cup {<<>>}
  /\ method = ""
  /\ encrypted = Undefined
  /\ decrypted = Undefined
  /\ stage = "input"
  /\ DocIdle /\ PageIdle /\ BatchIdle

EncryptStep ==
  /\ stage = "input"
  /\ \E m \in {"1", "2", "3"} :
       /\ method' = m
       /\ encrypted' = Encrypt(m, content, key, salt)
  /\ stage' = "encoded"
  /\ UNCHANGED <<content, key, salt, decrypted, docVars, pageVars, batchVars>>

DecryptStep ==
  /\ stage = "encoded"
  /\ encrypted.ok
  /\ decrypted' = Decrypt(method, encrypted.val, key, salt)
  /\ stage' = "decoded"
  /\ UNCHANGED <<content, key, salt, method, encrypted, docVars, pageVars, batchVars>>

CodecNext == EncryptStep \/ DecryptStep

SpecCodec == CodecInit /\ [][CodecNext]_vars

----------------------------------------------------------------------------
(* Claims on the codecs, checked under SpecCodec.                          *)

\* the bytes method 3 hands to base62Encode
DoubleXor == XorCyclic2(Utf8Encode(content), Utf8Encode(key), Utf8Encode(salt))

\* C1: method 3 round trip.  For every non-empty content, every key and every
\* salt, the method-3 decode of the method-3 encode returns the content, also
\* when the double-XOR result begins with zero bytes.  Stated here for the
\* generated keys and salts, which the claim covers and whose characters are
\* all ASCII, so that only the base-62 conversion decides it.
C1_Method3RoundTrip ==
  (stage = "decoded" /\ method = "3" /\ key \in GeneratedKeys /\ salt \in GeneratedSalts)
    => decrypted = Some(content)

\* C1: the case the claim names is reached: a double-XOR result of more than
\* one byte that begins with a zero byte has been encoded and decoded
C1_LeadingZeroDecoded ==
  /\ stage = "decoded" /\ method = "3"
  /\ key \in GeneratedKeys /\ salt \in GeneratedSalts
  /\ Len(DoubleXor) > 1 /\ DoubleXor[1] = 0

\* C2: method 1 round trip.  For every non-empty content and every generated
\* key, hex-decoding the hex-encoded XOR and XOR-ing again with the key byte at
\* i mod keyLength returns exactly the content.
C2_Method1RoundTrip ==
  (stage = "decoded" /\ method = "1" /\ key \in GeneratedKeys)
    => decrypted = Some(content)

\* C2: a content longer than the generated key, so that the key is reused from
\* its start, has been encoded and decoded by method 1
C2_Method1Wrapped ==
  /\ stage = "decoded" /\ method = "1" /\ key \in GeneratedKeys
  /\ Len(Utf8Encode(content)) > Len(key)
  /\ Len(encrypted.val) = 2 * Len(Utf8Encode(content))
  /\ decrypted = Some(content)

\* C3: method 2 round trip and reversal symmetry.  For every key the reversal
\* decision of the build equals that of the client, and for every non-empty
\* content the method-2 decode of the method-2 encode returns the content.
C3_Method2RoundTrip ==
  /\ ShouldReverseBuild(key) = ShouldReverseClient(key)
  /\ (stage = "decoded" /\ method = "2") => decrypted = Some(content)

\* C3: method 2 has encoded and decoded under a key that reverses the base64
\* text
C3_Method2Reversed ==
  stage = "decoded" /\ method = "2" /\ ShouldReverseBuild(key)

\* the call of encrypt fails by the conditions the claim names
EncodeFails ==
  content = <<>> \/ key = <<>> \/ (method = "3" /\ salt = <<>>)

\* C17: encode failure conditions.  Each of the three encrypt functions returns
\* no result when the content is empty or the key is missing, method 3 also
\* when the salt is missing, and a non-empty payload string in every other
\* case.
C17_EncodeFailureConditions ==
  stage \in {"encoded", "decoded"} =>
    /\ EncodeFails => encrypted = Undefined
    /\ ~EncodeFails => (encrypted.ok /\ encrypted.val # <<>>)

\* C17: method 3 was called with content and key but without a salt and
\* returned no result
C17_Method3WithoutSalt ==
  /\ stage = "encoded" /\ method = "3"
  /\ content # <<>> /\ key # <<>> /\ salt = <<>>
  /\ encrypted = Undefined

\* C27: key-stream agreement for supplied secrets.  For every userKey and
\* every userSalt of SaltLength characters, the cyclic streams of the UTF-8
\* bytes of the key and of the salt, which encode uses, are over the length of
\* the content the streams of their character codes, which decode uses; and
\* decode returns the content for methods 1 and 2, and for method 3 when the
\* double-XOR result does not begin with a zero byte.
C27_KeyStreamAgreement ==
  (stage = "decoded" /\ key \in UserKeys /\ salt \in UserSalts) =>
    LET zero == [i \in 1..Len(Utf8Encode(content)) |-> 0] IN
    /\ XorCyclic(zero, Utf8Encode(key)) = XorCyclic(zero, key)
    /\ XorCyclic(zero, Utf8Encode(salt)) = XorCyclic(zero, salt)
    /\ method \in {"1", "2"} => decrypted = Some(content)
    /\ (method = "3" /\ DoubleXor[1] # 0) => decrypted = Some(content)

\* C27: a userKey of one character was used by method 2 to encode and to
\* decode a content longer than the key
C27_OneCharacterKey ==
  /\ stage = "decoded" /\ method = "2"
  /\ key \in UserKeys /\ Len(key) = 1 /\ salt \in UserSalts
  /\ Len(content) > 1
  /\ decrypted = Some(content)

----------------------------------------------------------------------------
(* Documents.  A document is the sequence of its elements in document      *)
(* order together with the contents of its <meta name="4758"> tags.  An    *)
(* element holds its tag, the index of its parent element (0: the body),   *)
(* whether it has been removed from its parent, its attributes (href,      *)
(* data-obfuscation, data-7391, data-5647), its text and the text of its   *)
(* <noscript> child.  A removed element keeps its index; the text that     *)
(* $.html() returns, and the page the browser parses from it, hold the     *)
(* elements that are InDocument.                                           *)

\* <h1> ... <span> of defaultAllowedTags
defaultAllowedTags ==
  {"h1", "h2", "h3", "h4", "h5", "h6", "p", "a", "label", "ul", "ol", "li",
   "strong", "b", "em", "i", "span"}

\* "[PROTECTED!]"
DefaultFallbackText == <<91, 80, 82, 79, 84, 69, 67, 84, 69, 68, 33, 93>>

\* concurrencyLimit: userOptions.concurrencyLimit || 5
DefaultConcurrencyLimit == 5

\* tag.toLowerCase() on the tag names of the model
ToLowerCase(tag) ==
  IF tag = "DIV" THEN "div"
  ELSE IF tag = "A" THEN "a"
  ELSE IF tag = "SPAN" THEN "span"
  ELSE tag

mergeAllowedTags(userTags) ==
  {ToLowerCase(tag) : tag \in defaultAllowedTags} \cup {ToLowerCase(tag) : tag \in userTags}

\* the options record; an absent or falsy user option is <<>>, {} or 0.
\* options.userKey and options.userSalt are the variables key and salt.
astroMailObfuscation(userOptions) ==
  [fallbackText |->
     IF userOptions.fallbackText = <<>> THEN DefaultFallbackText
     ELSE userOptions.fallbackText,
   concurrencyLimit |->
     IF userOptions.concurrencyLimit = 0 THEN DefaultConcurrencyLimit
     ELSE userOptions.concurrencyLimit,
   allowedTags |-> mergeAllowedTags(userOptions.allowedTags)]

\* the method ids
ValidTypes == {"1", "2", "3"}

\* a variant that takes every result for a payload
TruthyAlways(a) == TRUE

\* a string is truthy when it is not empty; null and undefined are not
Truthy(a) == a.ok /\ a.val # <<>>

TruthyType(a) == a.ok /\ a.val # ""

TagChars(tag) ==
  IF tag = "a" THEN <<97>>
  ELSE IF tag = "div" THEN <<100, 105, 118>>
  ELSE <<115, 112, 97, 110>>

TypeChars(type) ==
  IF type = "0" THEN <<48>>
  ELSE IF type = "1" THEN <<49>>
  ELSE IF type = "2" THEN <<50>>
  ELSE IF type = "3" THEN <<51>>
  ELSE IF type = "toString" THEN <<116, 111, 83, 116, 114, 105, 110, 103>>
  ELSE IF type = "constructor"
    THEN <<99, 111, 110, 115, 116, 114, 117, 99, 116, 111, 114>>
  ELSE <<>>

\* name="value" preceded by a space, or nothing when the attribute is absent
AttrHtml(name, a) ==
  IF a.ok THEN <<32>> \o name \o <<61, 34>> \o a.val \o <<34>> ELSE <<>>

StartTag(e) ==
  <<60>> \o TagChars(e.tag)
    \o AttrHtml(<<104, 114, 101, 102>>, e.href)                        \* href
    \o AttrHtml(<<100, 97, 116, 97, 45, 111, 98, 102, 117, 115, 99, 97, 116, 105, 111, 110>>,
                [ok |-> e.obf.ok, val |-> TypeChars(e.obf.val)])        \* data-obfuscation
    \o AttrHtml(<<100, 97, 116, 97, 45, 55, 51, 57, 49>>, e.d7391)      \* data-7391
    \o AttrHtml(<<100, 97, 116, 97, 45, 53, 54, 52, 55>>, e.d5647)      \* data-5647
    \o <<62>>

EndTag(e) == <<60, 47>> \o TagChars(e.tag) \o <<62>>

\* <noscript>text</noscript>
NoscriptHtml(text) ==
  <<60, 110, 111, 115, 99, 114, 105, 112, 116, 62>> \o text
    \o <<60, 47, 110, 111, 115, 99, 114, 105, 112, 116, 62>>

\* $el.html(): the inner markup of element i
RECURSIVE InnerHtml(_, _)
RECURSIVE ChildrenHtml(_, _, _)
InnerHtml(els, i) ==
  (IF els[i].noscript.ok THEN NoscriptHtml(els[i].noscript.val) ELSE <<>>)
    \o els[i].text \o ChildrenHtml(els, i, i + 1)

ChildrenHtml(els, i, j) ==
  IF j > Len(els) THEN <<>>
  ELSE (IF els[j].parent = i /\ ~els[j].detached
        THEN StartTag(els[j]) \o InnerHtml(els, j) \o EndTag(els[j])
        ELSE <<>>) \o ChildrenHtml(els, i, j + 1)

\* $.html($el): the markup of element i with its own tags
OuterHtml(els, i) == StartTag(els[i]) \o InnerHtml(els, i) \o EndTag(els[i])

\* element i is part of the document
RECURSIVE InDocument(_, _)
InDocument(els, i) ==
  /\ ~els[i].detached
  /\ els[i].parent = 0 \/ InDocument(els, els[i].parent)

\* element j lies inside element i
RECURSIVE IsDescendant(_, _, _)
IsDescendant(els, i, j) ==
  /\ els[j].parent # 0
  /\ els[j].parent = i \/ IsDescendant(els, i, els[j].parent)

\* a variant that leaves the children where they are
KeepChildren(els, i) == els

\* $el.empty(): the children of element i are removed from it
Empty(els, i) ==
  [j \in 1..Len(els) |->
     IF j = i THEN [els[j] EXCEPT !.text = <<>>, !.noscript = Undefined]
     ELSE IF els[j].parent = i THEN [els[j] EXCEPT !.detached = TRUE]
     ELSE els[j]]

\* allowedTags.includes(tagName); the first is a variant that allows
\* every tag
TagAllowedAlways(allowedTags, tagName) == TRUE

TagAllowed(allowedTags, tagName) == tagName \in allowedTags

\* a variant that selects every element
SelectedEvery(els) == {i \in 1..Len(els) : InDocument(els, i)}

\* $(selector): the elements that carry data-obfuscation
Selected(els) == {i \in 1..Len(els) : InDocument(els, i) /\ els[i].obf.ok}

\* a variant that draws a method whatever the element asks for
ResolveMethodRandom(e, rnd) == rnd

\* validTypes.includes(type) ? type : a random method
ResolveMethod(e, rnd) ==
  IF e.obf.ok /\ e.obf.val \in ValidTypes THEN e.obf.val ELSE rnd

\* the writes of the branch "if (encryptedContent)" to element i
Obfuscated(els, i, opts, m, encryptedHref, encryptedContent) ==
  [Empty(els, i) EXCEPT ![i] =
     [@ EXCEPT !.noscript = Some(opts.fallbackText),
               !.d7391 = Some(encryptedContent.val),
               !.obf = Some(m),
               !.d5647 = IF Truthy(encryptedHref) THEN Some(encryptedHref.val) ELSE @,
               !.href = IF Truthy(encryptedHref) THEN Undefined ELSE @]]

\* a variant of the callback that resolves the method a second time for the
\* href, so that an element without a valid type draws twice
ObfuscateElementTwoDraws(els, i, opts, k, s, rnd) ==
  LET e == els[i]
      tagName == ToLowerCase(e.tag)
      href == IF e.href.ok THEN e.href.val ELSE <<>>
      m == ResolveMethod(e, rnd)
      m2 == ResolveMethod(e, IF rnd = "3" THEN "1" ELSE "3")
  IN IF ~TagAllowed(opts.allowedTags, tagName) THEN els
     ELSE CHOOSE out \in
            { IF Truthy(encryptedContent)
              THEN Obfuscated(els, i, opts, m, encryptedHref, encryptedContent)
              ELSE els :
                encryptedHref \in {IF href # <<>> THEN Encrypt(m2, href, k, s) ELSE Undefined},
                encryptedContent \in {Encrypt(m, InnerHtml(els, i), k, s)} } : TRUE

\* the body of the callback of $(selector).each for element i.  The two
\* results of encrypt are bound as the members of one-element sets, so that
\* each is computed once.
ObfuscateElement(els, i, opts, k, s, rnd) ==
  LET e == els[i]
      tagName == ToLowerCase(e.tag)
      href == IF e.href.ok THEN e.href.val ELSE <<>>
      m == ResolveMethod(e, rnd)
  IN IF ~TagAllowed(opts.allowedTags, tagName) THEN els
     ELSE CHOOSE out \in
            { IF Truthy(encryptedContent)
              THEN Obfuscated(els, i, opts, m, encryptedHref, encryptedContent)
              ELSE els :
                encryptedHref \in {IF href # <<>> THEN Encrypt(m, href, k, s) ELSE Undefined},
                encryptedContent \in {Encrypt(m, InnerHtml(els, i), k, s)} } : TRUE

\* $(selector).each over the selected elements from element i on
RECURSIVE EachElement(_, _, _, _, _, _, _)
EachElement(els, selected, i, opts, k, s, rnd) ==
  IF i > Len(els) THEN els
  ELSE CHOOSE out \in
         { EachElement(done, selected, i + 1, opts, k, s, rnd) :
             done \in {IF i \in selected
                       THEN ObfuscateElement(els, i, opts, k, s, rnd[i])
                       ELSE els} } : TRUE

\* $("[data-5647]").length || $("[data-7391]").length; the first is a
\* variant that looks for the elements that were selected
HasSelected(els) == \E i \in 1..Len(els) : els[i].obf.ok

HasPayload(els) ==
  \E i \in 1..Len(els) : InDocument(els, i) /\ (els[i].d5647.ok \/ els[i].d7391.ok)

\* the value the parser reads for content in the markup
\* `<meta name="4758" content="${v}">`: the attribute ends at the first
\* quotation mark.  Character references are not enumerated.
AttrValue(v) ==
  LET q == {i \in 1..Len(v) : v[i] = 34} IN
  IF q = {} THEN v ELSE SubSeq(v, 1, (CHOOSE i \in q : \A j \in q : i <= j) - 1)

\* a variant that calls generateUserKey() itself instead of reading
\* options.userKey
modifyHtmlOwnKey(h, opts, k, s, rnd) ==
  LET own == CHOOSE x \in GeneratedKeys : x # k IN
  CHOOSE out \in
    { [els |-> els,
       meta |-> IF HasPayload(els) THEN Append(h.meta, AttrValue(own \o s)) ELSE h.meta] :
        els \in {EachElement(h.els, Selected(h.els), 1, opts, own, s, rnd)} } : TRUE

modifyHtml(h, opts, k, s, rnd) ==
  CHOOSE out \in
    { [els |-> els,
       meta |-> IF HasPayload(els) THEN Append(h.meta, AttrValue(k \o s)) ELSE h.meta] :
        els \in {EachElement(h.els, Selected(h.els), 1, opts, k, s, rnd)} } : TRUE

\* the elements for which modifyHtml calls Math.random()
RandomDraws(h, opts) ==
  {i \in 1..Len(h.els) :
     /\ h.els[i].obf.ok /\ h.els[i].obf.val \notin ValidTypes
     /\ ToLowerCase(h.els[i].tag) \in opts.allowedTags}

\* one value of (Math.floor(Math.random() * 3) + 1).toString() per element;
\* the elements that draw none get "1", which is not read
RandomChoices(h, opts) ==
  {[i \in 1..Len(h.els) |-> IF i \in RandomDraws(h, opts) THEN r[i] ELSE "1"] :
     r \in [1..Len(h.els) -> ValidTypes]}

----------------------------------------------------------------------------
(* The decode pass of the client script.                                   *)

getKeyAndSalt(doc) ==
  IF doc.meta = <<>> THEN [key |-> Undefined, salt |-> Undefined]
  ELSE LET c == doc.meta[1]
           n == Len(c)
       IN IF c = <<>> THEN [key |-> Undefined, salt |-> Undefined]
          ELSE [key |-> Some(IF n > SaltLength THEN SubSeq(c, 1, n - SaltLength) ELSE <<>>),
                salt |-> Some(IF n > SaltLength THEN SubSeq(c, n - SaltLength + 1, n) ELSE c)]

\* a variant that adds the decoded markup to what the element holds
DecodedAppending(st, i, markup, href) ==
  [els |-> [st.els EXCEPT ![i] =
              [@ EXCEPT !.href = IF Truthy(href) THEN Some(href.val) ELSE @,
                        !.noscript = Undefined,
                        !.text = @ \o markup.val]],
   writes |-> st.writes + 1
                + (IF Truthy(href) THEN 1 ELSE 0)
                + (IF st.els[i].noscript.ok THEN 1 ELSE 0)]

\* the writes of the callback of elements.forEach to element i, from
\* "if (href)" on; writes counts the calls that write to the DOM
Decoded(st, i, markup, href) ==
  [els |-> [Empty(st.els, i) EXCEPT ![i] =
              [@ EXCEPT !.href = IF Truthy(href) THEN Some(href.val) ELSE @,
                        !.text = markup.val]],
   writes |-> st.writes + 1
                + (IF Truthy(href) THEN 1 ELSE 0)
                + (IF st.els[i].noscript.ok THEN 1 ELSE 0)]

\* the body of the callback of elements.forEach for element i.  The two
\* results of decrypt are bound as the members of one-element sets, so that
\* each is computed once.
DecodeElement(st, i, k, s) ==
  LET el == st.els[i]
      encryptedHref == el.d5647
      encryptedContent == el.d7391
      type == el.obf
  IN IF ~Truthy(encryptedContent) \/ ~TruthyType(type) THEN st
     ELSE IF ~HasMethod(type.val) THEN st
     ELSE CHOOSE out \in
            { IF ~Truthy(markup) THEN st ELSE Decoded(st, i, markup, href) :
                markup \in {Decrypt(type.val, encryptedContent.val, k, s)},
                href \in {IF Truthy(encryptedHref)
                          THEN Decrypt(type.val, encryptedHref.val, k, s)
                          ELSE Undefined} } : TRUE

\* elements.forEach over the elements found by querySelectorAll
RECURSIVE ForEachElement(_, _, _, _, _)
ForEachElement(st, found, i, k, s) ==
  IF i > Len(st.els) THEN st
  ELSE CHOOSE out \in
         { ForEachElement(done, found, i + 1, k, s) :
             done \in {IF i \in found THEN DecodeElement(st, i, k, s) ELSE st} } : TRUE

\* a variant that goes on without a key
NoKeyNever(ks) == FALSE

\* if (!key) return
NoKey(ks) == ~Truthy(ks.key)

\* deobfuscateContent(): the document it leaves and the number of DOM writes
deobfuscateContent(doc) ==
  LET found == {i \in 1..Len(doc.els) : InDocument(doc.els, i) /\ doc.els[i].d7391.ok}
      ks == getKeyAndSalt(doc)
      start == [els |-> doc.els, writes |-> 0]
  IN IF found = {} THEN [document |-> doc, writes |-> 0]
     ELSE IF NoKey(ks) THEN [document |-> doc, writes |-> 0]
     ELSE CHOOSE out \in
            { [document |-> [doc EXCEPT !.els = end.els], writes |-> end.writes] :
                end \in {ForEachElement(start, found, 1, ks.key.val,
                                        IF ks.salt.ok THEN ks.salt.val ELSE <<>>)} } : TRUE

\* init(): what it leaves in decryptionPerformed and the document, and
\* whether it ran deobfuscateContent
init(performed, doc) ==
  IF ~performed
  THEN CHOOSE out \in
         { [document |-> r.document, decryptionPerformed |-> TRUE,
            ran |-> TRUE, writes |-> r.writes] :
             r \in {deobfuscateContent(doc)} } : TRUE
  ELSE [document |-> doc, decryptionPerformed |-> performed,
        ran |-> FALSE, writes |-> 0]

----------------------------------------------------------------------------
(* The documents and options that are enumerated.                          *)

\* most elements of an enumerated document
MaxElements == 2

\* most events delivered to one loaded script
MaxEvents == 2

\* "mailto:a@a"
Mailto == <<109, 97, 105, 108, 116, 111, 58, 97, 64, 97>>

Shape(tag, obf, href, text, payload) ==
  [tag |-> tag, parent |-> 0, detached |-> FALSE, href |-> href, obf |-> obf,
   d7391 |-> payload, d5647 |-> Undefined, text |-> text, noscript |-> Undefined]

\* <a href="mailto:a@a" data-obfuscation="0">a</a>,
\* <a href="mailto:a@a" data-obfuscation="2">a</a>,
\* <span data-obfuscation="1"></span> and <div data-obfuscation="3">a</div>
MarkedShapes ==
  {Shape("a", Some("0"), Some(Mailto), <<97>>, Undefined),
   Shape("a", Some("2"), Some(Mailto), <<97>>, Undefined),
   Shape("span", Some("1"), Undefined, <<>>, Undefined),
   Shape("div", Some("3"), Undefined, <<97>>, Undefined)}

\* <a href="mailto:a@a">a</a>
PlainShapes == {Shape("a", Undefined, Some(Mailto), <<97>>, Undefined)}

\* <span data-7391="78">a</span>: an element that carries a content payload
\* before modifyHtml runs
StaleShapes == {Shape("span", Undefined, Undefined, <<97>>, Some(<<55, 56>>))}

\* "bP2345678": the content of a metadata tag of an earlier build
StaleMeta == <<98, 80, 50, 51, 52, 53, 54, 55, 56>>

\* the parent indices of n elements listed in document order
RECURSIVE OnPath(_, _, _)
OnPath(p, i, a) == i # 0 /\ (i = a \/ OnPath(p, p[i], a))

Nestings(n) ==
  {p \in [1..n -> 0..n] :
     /\ \A i \in 1..n : p[i] < i
     /\ \A i \in 2..n : p[i] = 0 \/ OnPath(p, i - 1, p[i])}

\* the parser does not nest an <a> in an <a>
WellNested(els) ==
  \A i, j \in 1..Len(els) :
    IsDescendant(els, i, j) => ~(els[i].tag = "a" /\ els[j].tag = "a")

DocsOf(shapes) ==
  UNION { { [els |-> [i \in 1..n |-> [sh[i] EXCEPT !.parent = p[i]]], meta |-> <<>>] :
              sh \in [1..n -> shapes], p \in Nestings(n) } : n \in 1..MaxElements }

\* a document that carries no payload attribute and no metadata tag
CleanDocs == {h \in DocsOf(MarkedShapes \cup PlainShapes) : WellNested(h.els)}

\* <a href="mailto:a@a" data-obfuscation="0">a</a>,
\* <span data-obfuscation="1">a</span> and <a href="mailto:a@a">a</a>
PageShapes ==
  {Shape("a", Some("0"), Some(Mailto), <<97>>, Undefined),
   Shape("span", Some("1"), Undefined, <<97>>, Undefined),
   Shape("a", Undefined, Some(Mailto), <<97>>, Undefined)}

\* <a href="mailto:test@example.com" data-obfuscation="1">test@example.com</a>
ScenarioA ==
  [els |-> <<Shape("a", Some("1"), Some(SubSeq(LongText, 1, 23)),
                   SubSeq(LongText, 24, 39), Undefined)>>,
   meta |-> <<>>]

\* a page as Astro has rendered it
PageDocs == {h \in DocsOf(PageShapes) : WellNested(h.els)} \cup {ScenarioA}

\* a page that already carries a payload attribute or a metadata tag
StaleDocs ==
  {h \in DocsOf(MarkedShapes \cup StaleShapes) :
     WellNested(h.els) /\ \E i \in 1..Len(h.els) : h.els[i].d7391.ok}
    \cup {[h EXCEPT !.meta = <<StaleMeta>>] : h \in {g \in CleanDocs : Len(g.els) = 1}}

InputDocs == CleanDocs \cup StaleDocs

\* userOptions: each of fallbackText: "x", allowedTags: ["DIV"] and
\* userKey: "a" given or left out
UserOptions ==
  {[fallbackText |-> fb, concurrencyLimit |-> 0, allowedTags |-> tags, userKey |-> k,
    userSalt |-> <<>>] :
     fb \in {<<>>, <<120>>}, tags \in {{}, {"DIV"}}, k \in {<<>>, <<97>>}}

\* userOptions.userKey || generateUserKey(), one generated key enumerated
UserKeyFor(userOptions) ==
  IF userOptions.userKey # <<>> THEN {userOptions.userKey}
  ELSE {k \in GeneratedKeys : k[1] = 49 /\ k[Len(k)] = 102}

\* userOptions.userSalt || generateUserSalt(8), one generated salt enumerated
UserSaltFor(userOptions) ==
  IF userOptions.userSalt # <<>> THEN {userOptions.userSalt}
  ELSE {s \in GeneratedSalts : s[1] = 80}

----------------------------------------------------------------------------
(* The document specification: modifyHtml on one document.                 *)

DocInit ==
  /\ \E u \in UserOptions :
       /\ options = astroMailObfuscation(u)
       /\ key \in UserKeyFor(u)
       /\ salt \in UserSaltFor(u)
  /\ html \in {Some(h) : h \in InputDocs}
  /\ modifiedHtml = Undefined
  /\ CodecIdle /\ PageIdle /\ BatchIdle

ModifyStep ==
  /\ html.ok /\ ~modifiedHtml.ok
  /\ \E rnd \in RandomChoices(html.val, options) :
       modifiedHtml' = Some(modifyHtml(html.val, options, key, salt, rnd))
  /\ UNCHANGED <<codecVars, secretVars, options, html, pageVars, batchVars>>

DocNext == ModifyStep

SpecDoc == DocInit /\ [][DocNext]_vars

----------------------------------------------------------------------------
(* The page specification: modifyHtml on one page, the browser loading the *)
(* result, and the events the script listens to.  A soft navigation swaps  *)
(* in a newly rendered page instance; the script and its fields stay.      *)

PageInit ==
  /\ \E u \in {o \in UserOptions : o.allowedTags = {} /\ o.fallbackText = <<>>} :
       /\ options = astroMailObfuscation(u)
       /\ key \in UserKeyFor(u)
       /\ salt \in UserSaltFor(u)
  /\ html \in {Some(h) : h \in PageDocs}
  /\ modifiedHtml = Undefined
  /\ CodecIdle /\ PageIdle /\ BatchIdle

\* the browser parses the page and runs the script: new AstroMailObfuscation()
LoadPage ==
  /\ modifiedHtml.ok /\ ~document.ok
  /\ document' = modifiedHtml
  /\ decryptionPerformed' = FALSE
  /\ UNCHANGED <<codecVars, secretVars, docVars, passes, mutations, events, batchVars>>

\* the listener of DOMContentLoaded: init
DOMContentLoaded ==
  /\ document.ok /\ events < MaxEvents
  /\ \E r \in {init(decryptionPerformed, document.val)} :
        /\ document' = Some(r.document)
        /\ decryptionPerformed' = r.decryptionPerformed
        /\ passes' = IF r.ran THEN passes + 1 ELSE passes
        /\ mutations' = IF r.ran THEN r.writes ELSE mutations
  /\ events' = events + 1
  /\ UNCHANGED <<codecVars, secretVars, docVars, batchVars>>

\* the listener of astro:page-load: decryptionPerformed = false; init()
AstroPageLoad ==
  /\ document.ok /\ events < MaxEvents
  /\ \E r \in {init(FALSE, document.val)} :
        /\ document' = Some(r.document)
        /\ decryptionPerformed' = r.decryptionPerformed
        /\ passes' = IF r.ran THEN passes + 1 ELSE passes
        /\ mutations' = IF r.ran THEN r.writes ELSE mutations
  /\ events' = events + 1
  /\ UNCHANGED <<codecVars, secretVars, docVars, batchVars>>

\* the router swaps in a newly rendered page instance
SoftNavigation ==
  /\ document.ok /\ events < MaxEvents
  /\ document' = modifiedHtml
  /\ passes' = 0
  /\ mutations' = 0
  /\ events' = events + 1
  /\ UNCHANGED <<codecVars, secretVars, docVars, decryptionPerformed, batchVars>>

PageNext == ModifyStep \/ LoadPage \/ DOMContentLoaded \/ AstroPageLoad \/ SoftNavigation

SpecPage == PageInit /\ [][PageNext]_vars

----------------------------------------------------------------------------
(* The secrets specification: the pages of one element under the keys and  *)
(* salts that astroMailObfuscation accepts, built, loaded and decoded.      *)

\* userOptions: userKey and userSalt given or left out.  Among the keys is
\* 'a"b'; among the salts is "Pq2", which the integration accepts although a
\* salt is to have SaltLength characters.
SecretOptions ==
  {[fallbackText |-> <<>>, concurrencyLimit |-> 0, allowedTags |-> {}, userKey |-> k,
    userSalt |-> s] :
     k \in {<<>>} \cup UserKeys \cup {<<97, 34, 98>>},
     s \in {<<>>} \cup UserSalts \cup {<<80, 113, 50>>}}

SecretsInit ==
  /\ \E u \in SecretOptions :
       /\ options = astroMailObfuscation(u)
       /\ key \in (IF u.userKey # <<>> THEN {u.userKey} ELSE GeneratedKeys)
       /\ salt \in (IF u.userSalt # <<>> THEN {u.userSalt} ELSE GeneratedSalts)
  /\ html \in {Some(h) : h \in {g \in PageDocs : Len(g.els) = 1}}
  /\ modifiedHtml = Undefined
  /\ CodecIdle /\ PageIdle /\ BatchIdle

SpecSecrets == SecretsInit /\ [][PageNext]_vars

\* C12: key/salt recovery.  The salt used by a build has SaltLength
\* characters, and the split of the metadata value by the client returns the
\* key and the salt that the build used, for generated secrets and for secrets
\* given through userKey and userSalt.
C12_SecretsRecovered ==
  /\ Len(salt) = SaltLength
  /\ (document.ok /\ document.val.meta # <<>>) =>
       getKeyAndSalt(document.val) = [key |-> Some(key), salt |-> Some(salt)]

\* C12: a page built with a userKey and a userSalt of SaltLength characters
\* was decoded with the key and the salt that the build used
C12_SuppliedSecretsSplit ==
  /\ document.ok /\ passes >= 1 /\ mutations > 0
  /\ key \in UserKeys /\ salt \in UserSalts
  /\ getKeyAndSalt(document.val) = [key |-> Some(key), salt |-> Some(salt)]

----------------------------------------------------------------------------
(* The run-time specification: the client script on a page as the browser  *)
(* receives it.  The page is one that modifyHtml has returned, as it is or  *)
(* with its metadata tag removed or emptied, with one payload attribute     *)
(* replaced by "!", which none of the three methods decodes, or with the    *)
(* data-obfuscation attribute of one element removed or set to "0",         *)
(* "toString" or "constructor".                                             *)

\* the pages modifyHtml returns, under the default options and one generated
\* key and salt, for the marked elements of PageShapes put side by side
ServedPages ==
  LET u == [fallbackText |-> <<>>, concurrencyLimit |-> 0, allowedTags |-> {},
            userKey |-> <<>>, userSalt |-> <<>>]
      opts == astroMailObfuscation(u)
      k == CHOOSE x \in UserKeyFor(u) : TRUE
      s == CHOOSE x \in UserSaltFor(u) : TRUE
      docs == {h \in DocsOf({sh \in PageShapes : sh.obf.ok}) :
                 \A i \in 1..Len(h.els) : h.els[i].parent = 0}
  IN UNION { {modifyHtml(h, opts, k, s, rnd) : rnd \in RandomChoices(h, opts)} :
             h \in docs }

RuntimeDocs ==
  UNION { {d, [d EXCEPT !.meta = <<>>], [d EXCEPT !.meta = <<<<>>>>]}
            \cup {[d EXCEPT !.els[i].d5647 = Some(<<33>>)] : i \in 1..Len(d.els)}
            \cup {[d EXCEPT !.els[i].d7391 = Some(<<33>>)] : i \in 1..Len(d.els)}
            \cup {[d EXCEPT !.els[i].obf = type] :
                    i \in 1..Len(d.els),
                    type \in {Undefined, Some("0"), Some("toString"), Some("constructor")}} :
          d \in ServedPages }

RuntimeInit ==
  /\ modifiedHtml \in {Some(d) : d \in RuntimeDocs}
  /\ html = Undefined
  /\ options = <<>>
  /\ key = <<>> /\ salt = <<>>
  /\ CodecIdle /\ PageIdle /\ BatchIdle

RuntimeNext == LoadPage \/ DOMContentLoaded \/ AstroPageLoad \/ SoftNavigation

SpecRuntime == RuntimeInit /\ [][RuntimeNext]_vars

----------------------------------------------------------------------------
(* The batch specification: the astro:build:done hook.  globby lists the   *)
(* files, pLimit(options.concurrencyLimit) queues one processHtmlFile task *)
(* for each and runs at most that many at a time, Promise.all waits for    *)
(* all of them.  Reads and writes resolve or reject; a task settles when   *)
(* its write resolves or when its catch clause has run.                    *)

\* most files in the output directory
MaxFiles == 3

\* the page in file f: <a href="mailto:a@a" data-obfuscation="2">a</a> in
\* the files of odd number, <a href="mailto:a@a">a</a> in the others
FilePage(f) ==
  [els |-> <<IF f % 2 = 1
             THEN Shape("a", Some("2"), Some(Mailto), <<97>>, Undefined)
             ELSE Shape("a", Undefined, Some(Mailto), <<97>>, Undefined)>>,
   meta |-> <<>>]

\* a file that fs.writeFile has opened, and so truncated, and not written
TruncatedFile == [els |-> <<>>, meta |-> <<>>]

\* userOptions: concurrencyLimit absent or 0, 1, 2 and -1, userKey absent or
\* "a"
BatchUserOptions ==
  {[fallbackText |-> <<>>, concurrencyLimit |-> c, allowedTags |-> {}, userKey |-> k,
    userSalt |-> <<>>] : c \in {0, 1, 2, 0 - 1}, k \in {<<>>, <<97>>}}

NewTask ==
  [pc |-> "new", starts |-> 0, reads |-> 0, transforms |-> 0, writes |-> 0,
   html |-> Undefined, modifiedHtml |-> Undefined]

Files == DOMAIN task

\* the tasks between the start of their read and the end of their write
Active == {f \in Files : task[f].pc \in {"reading", "transforming", "writing"}}

Settled(f) == task[f].pc \in {"done", "failed"}

\* a variant of pLimit that takes every concurrency but 0
ValidLimitNonZero(concurrency) == concurrency # 0

\* pLimit(concurrency) throws unless concurrency is a positive integer
ValidLimit(concurrency) == concurrency > 0

\* the limiter starts a queued task while fewer than concurrency tasks run;
\* the first is a variant that lets one more start
SlotFreeOrEqual(running, concurrency) == running <= concurrency

SlotFree(running, concurrency) == running < concurrency

\* the limiter's queue after a task has left it; the first is a variant
\* that leaves the task in the queue
KeepHead(q) == q

Dequeue(q) == Tail(q)

\* a variant in which a task that settles keeps its slot
SlotKept(running) == running

\* the limiter counts a task that has settled out of the running ones
SlotFreed(running) == running - 1

BatchInit ==
  /\ \E u \in BatchUserOptions :
       /\ options = astroMailObfuscation(u)
       /\ key \in UserKeyFor(u)
       /\ salt \in UserSaltFor(u)
  /\ \E T \in 0..MaxFiles :
       /\ original = [f \in 1..T |-> FilePage(f)]
       /\ task = [f \in 1..T |-> NewTask]
  /\ disk = original
  /\ hook = "idle"
  /\ queue = <<>>
  /\ activeCount = 0
  /\ html = Undefined /\ modifiedHtml = Undefined
  /\ CodecIdle /\ PageIdle

\* the hook up to "await Promise.all(tasks)": every file gets a queued task
BuildDone ==
  /\ hook = "idle"
  /\ ValidLimit(options.concurrencyLimit)
  /\ hook' = "running"
  /\ queue' = [i \in 1..Len(task) |-> i]
  /\ task' = [f \in Files |-> [task[f] EXCEPT !.pc = "queued"]]
  /\ UNCHANGED <<codecVars, secretVars, docVars, pageVars, activeCount, disk, original>>

\* globby rejects: the catch clause of the hook logs the error
GlobbyRejects ==
  /\ hook = "idle"
  /\ hook' = "error"
  /\ UNCHANGED <<codecVars, secretVars, docVars, pageVars, queue, activeCount, task,
                 disk, original>>

\* pLimit throws: the catch clause of the hook logs the error
LimitThrows ==
  /\ hook = "idle"
  /\ ~ValidLimit(options.concurrencyLimit)
  /\ hook' = "error"
  /\ UNCHANGED <<codecVars, secretVars, docVars, pageVars, queue, activeCount, task,
                 disk, original>>

\* the limiter starts the task at the head of its queue: fs.readFile is called
StartTask ==
  /\ hook = "running"
  /\ queue # <<>>
  /\ SlotFree(activeCount, options.concurrencyLimit)
  /\ LET f == Head(queue)
     IN task' = [task EXCEPT ![f].pc = "reading", ![f].starts = @ + 1]
  /\ queue' = Dequeue(queue)
  /\ activeCount' = activeCount + 1
  /\ UNCHANGED <<codecVars, secretVars, docVars, pageVars, hook, disk, original>>

\* fs.readFile resolves
ReadResolves(f) ==
  /\ task[f].pc = "reading"
  /\ task' = [task EXCEPT ![f].pc = "transforming", ![f].reads = @ + 1,
                          ![f].html = Some(disk[f])]
  /\ UNCHANGED <<codecVars, secretVars, docVars, pageVars, hook, queue, activeCount,
                 disk, original>>

\* fs.readFile rejects: the catch clause of processHtmlFile logs the error and
\* the task settles
ReadRejects(f) ==
  /\ task[f].pc = "reading"
  /\ task' = [task EXCEPT ![f].pc = "failed"]
  /\ activeCount' = SlotFreed(activeCount)
  /\ UNCHANGED <<codecVars, secretVars, docVars, pageVars, hook, queue, disk, original>>

\* modifyHtml returns and fs.writeFile is called
Transform(f) ==
  /\ task[f].pc = "transforming"
  /\ \E rnd \in RandomChoices(task[f].html.val, options) :
       task' = [task EXCEPT ![f].pc = "writing", ![f].transforms = @ + 1,
                            ![f].modifiedHtml =
                              Some(modifyHtml(task[f].html.val, options, key, salt, rnd))]
  /\ UNCHANGED <<codecVars, secretVars, docVars, pageVars, hook, queue, activeCount,
                 disk, original>>

\* fs.writeFile resolves and the task settles
WriteResolves(f) ==
  /\ task[f].pc = "writing"
  /\ disk' = [disk EXCEPT ![f] = task[f].modifiedHtml.val]
  /\ task' = [task EXCEPT ![f].pc = "done", ![f].writes = @ + 1]
  /\ activeCount' = SlotFreed(activeCount)
  /\ UNCHANGED <<codecVars, secretVars, docVars, pageVars, hook, queue, original>>

\* fs.writeFile rejects, before it has opened the file or after it has
\* truncated it: the catch clause of processHtmlFile logs the error and the
\* task settles
WriteRejects(f) ==
  /\ task[f].pc = "writing"
  /\ \E left \in {disk[f], TruncatedFile} : disk' = [disk EXCEPT ![f] = left]
  /\ task' = [task EXCEPT ![f].pc = "failed"]
  /\ activeCount' = SlotFreed(activeCount)
  /\ UNCHANGED <<codecVars, secretVars, docVars, pageVars, hook, queue, original>>

\* a variant of Promise.all that resolves when the first task settles
AnySettled == \E f \in Files : Settled(f)

\* Promise.all(tasks) resolves when every task has settled; no task rejects,
\* as processHtmlFile catches what its awaits throw
AllSettled == \A f \in Files : Settled(f)

\* Promise.all resolves: console.log("Astro-Mail-Obfuscation: Completed.")
Completed ==
  /\ hook = "running"
  /\ AllSettled
  /\ hook' = "completed"
  /\ UNCHANGED <<codecVars, secretVars, docVars, pageVars, queue, activeCount, task,
                 disk, original>>

BatchNext ==
  \/ BuildDone
  \/ GlobbyRejects
  \/ LimitThrows
  \/ StartTask
  \/ \E f \in Files : ReadResolves(f)
  \/ \E f \in Files : ReadRejects(f)
  \/ \E f \in Files : Transform(f)
  \/ \E f \in Files : WriteResolves(f)
  \/ \E f \in Files : WriteRejects(f)
  \/ Completed

SpecBatch == BatchInit /\ [][BatchNext]_vars

\* the batch run when every read, transform and write that was started
\* settles: the event loop runs a continuation that stays ready, the limiter
\* starts the next queued task when a slot is free, and Promise.all resolves
\* once its tasks have settled
FairSpecBatch ==
  /\ SpecBatch
  /\ WF_vars(StartTask)
  /\ WF_vars(\E f \in Files :
               \/ ReadResolves(f) \/ ReadRejects(f) \/ Transform(f)
               \/ WriteResolves(f) \/ WriteRejects(f))
  /\ WF_vars(Completed)

----------------------------------------------------------------------------
(* Claims on the batch run, checked under SpecBatch.                       *)

\* C4: concurrency bound.  While the hook runs with concurrency limit K, at
\* most K processHtmlFile tasks are between the start of their read and the
\* end of their write or their failure, also when there are more files than K.
C4_ConcurrencyBound ==
  hook \in {"running", "completed"} => Cardinality(Active) <= options.concurrencyLimit

\* C4: more files than the limit, as many tasks active as the limit allows and
\* a task still waiting in the queue
C4_LimitReached ==
  /\ hook = "running"
  /\ Len(task) > options.concurrencyLimit
  /\ Cardinality(Active) = options.concurrencyLimit
  /\ queue # <<>>

\* C5, as claimed: when completion is reported every file has been read,
\* passed through modifyHtml and written exactly once.
C5_ExactlyOnce ==
  hook = "completed" =>
    \A f \in Files :
      task[f].reads = 1 /\ task[f].transforms = 1 /\ task[f].writes = 1

\* C5, amended: when completion is reported the task of every file has been
\* started exactly once and has settled; a file whose task did not fail has
\* been read, passed through modifyHtml and written exactly once and holds
\* what modifyHtml returned; a file whose task failed has not been written;
\* no file has been read, transformed or written twice.
C5_ExactlyOnceUnlessFailed ==
  hook = "completed" =>
    \A f \in Files :
      /\ task[f].starts = 1
      /\ Settled(f)
      /\ task[f].reads <= 1 /\ task[f].transforms <= 1 /\ task[f].writes <= 1
      /\ task[f].pc = "done" =>
           /\ task[f].reads = 1 /\ task[f].transforms = 1 /\ task[f].writes = 1
           /\ disk[f] = task[f].modifiedHtml.val
      /\ task[f].pc = "failed" => task[f].writes = 0

\* C5: completion has been reported for a run in which one file was written
\* and the task of another failed
C5_CompletedWithFailure ==
  /\ hook = "completed"
  /\ \E f, g \in Files :
       /\ task[f].pc = "failed" /\ task[f].starts = 1
       /\ task[g].pc = "done" /\ task[g].writes = 1

\* C6: per-file failure isolation.  A file whose task failed holds on disk what
\* it held before the run, and when completion is reported every other file
\* has been transformed and written.
C6_FailureIsolated ==
  /\ \A f \in Files : task[f].pc = "failed" => disk[f] = original[f]
  /\ hook = "completed" =>
       \A f \in Files :
         task[f].pc # "failed" =>
           task[f].pc = "done" /\ disk[f] = task[f].modifiedHtml.val

\* C18: completion ordering.  Completion is reported only after every file
\* task has settled, by success or by failure, never while a task is queued or
\* active; and when every started task settles, a run that has queued its
\* tasks eventually reports completion.
C18_CompletionOrdering ==
  /\ [](hook = "completed" =>
         /\ \A f \in Files : task[f].pc \in {"done", "failed"}
         /\ queue = <<>> /\ activeCount = 0)
  /\ (hook = "running" ~> hook = "completed")

\* C18: completion was reported for a run over more files than the limit, in
\* which tasks had waited in the queue, one task failed and one succeeded
C18_CompletedAfterQueueing ==
  /\ hook = "completed"
  /\ Len(task) > options.concurrencyLimit
  /\ \E f, g \in Files : task[f].pc = "failed" /\ task[g].pc = "done"

\* C24: queue progress.  While the hook runs, the limiter's count is the number
\* of tasks between the start of their read and their settling, so a task that
\* settles, by success or by failure, has freed its slot; the queue holds
\* the tasks not yet started; no task is started twice; and when every started
\* task settles, every queued task is eventually started.
C24_QueueProgress ==
  /\ [](hook \in {"running", "completed"} =>
         /\ activeCount = Cardinality(Active)
         /\ \A f \in Files :
              /\ task[f].starts <= 1
              /\ task[f].pc = "queued" <=> \E n \in 1..Len(queue) : queue[n] = f)
  /\ \A f \in 1..MaxFiles :
       (f \in Files /\ task[f].pc = "queued") ~> (f \in Files /\ task[f].starts = 1)

\* C24: with more files than the limit, a task that had to wait in the queue
\* was started after the task of another file had failed
C24_StartedAfterFailure ==
  /\ hook = "running"
  /\ \E f, g \in Files :
       /\ task[f].pc = "failed"
       /\ g > options.concurrencyLimit
       /\ task[g].pc = "reading" /\ task[g].starts = 1

\* C28: the hook never fails towards the host.  A concurrencyLimit that is
\* absent or 0 becomes 5, so 0 never reaches pLimit; with a limit that is not
\* positive the hook does not get past pLimit; and once globby or pLimit has
\* failed, the error is logged, no task exists, no file has been read or
\* written, and completion is never reported.
C28_HookErrorsCaught ==
  /\ [](/\ \A u \in BatchUserOptions :
              u.concurrencyLimit = 0 =>
                astroMailObfuscation(u).concurrencyLimit = DefaultConcurrencyLimit
        /\ options.concurrencyLimit # 0
        /\ options.concurrencyLimit < 0 => hook \in {"idle", "error"}
        /\ hook = "error" =>
             /\ disk = original /\ queue = <<>> /\ activeCount = 0
             /\ \A f \in Files : task[f] = NewTask)
  /\ [][hook = "error" => hook' = "error"]_vars

\* C28: with concurrencyLimit -1 and files in the output directory, the hook
\* has logged the error of pLimit and left the files as they were
C28_LimitErrorLogged ==
  /\ hook = "error"
  /\ options.concurrencyLimit = 0 - 1
  /\ Len(task) >= 2
  /\ disk = original

\* C21: shared immutable secrets.  The key and the salt are those fixed when
\* the integration was created, generated or taken from userKey / userSalt; no
\* step of the build changes them or the options; and every document a file
\* task gets from modifyHtml carries payloads encoded under that key and salt
\* and, when it carries a metadata tag, the tag of that key and salt.
C21_SharedSecrets ==
  /\ [][key' = key /\ salt' = salt /\ options' = options]_vars
  /\ [](\A f \in Files :
          task[f].modifiedHtml.ok =>
            LET in == task[f].html.val
                out == task[f].modifiedHtml.val
            IN /\ out.meta \in {<<>>, <<key \o salt>>}
               /\ \A i \in 1..Len(out.els) :
                    out.els[i].d7391.ok =>
                      /\ out.meta = <<key \o salt>>
                      /\ out.els[i].d7391
                           = Encrypt(out.els[i].obf.val, InnerHtml(in.els, i), key, salt)
                      /\ out.els[i].d5647
                           = Encrypt(out.els[i].obf.val, in.els[i].href.val, key, salt))

\* C21: two files of one build were transformed and written, and both carry
\* the metadata tag of the one key and salt
C21_TwoFilesOneSecret ==
  /\ hook = "completed"
  /\ \E f, g \in Files :
       /\ f # g
       /\ task[f].pc = "done" /\ task[g].pc = "done"
       /\ disk[f].meta = <<key \o salt>> /\ disk[g].meta = <<key \o salt>>

----------------------------------------------------------------------------
(* Claims on modifyHtml, checked under SpecDoc.                            *)

\* the elements that modifyHtml has transformed: it gives them the <noscript>
\* child, which no enumerated input carries
TransformedElements ==
  {i \in 1..Len(modifiedHtml.val.els) : modifiedHtml.val.els[i].noscript.ok}

\* the input carries neither a payload attribute nor a metadata tag
CleanInput ==
  /\ html.val.meta = <<>>
  /\ \A i \in 1..Len(html.val.els) :
       ~html.val.els[i].d7391.ok /\ ~html.val.els[i].d5647.ok

Disallowed ==
  {i \in 1..Len(html.val.els) :
     html.val.els[i].obf.ok /\ ToLowerCase(html.val.els[i].tag) \notin options.allowedTags}

\* the elements that carry data-obfuscation on an allowed tag
Qualifying ==
  {i \in 1..Len(html.val.els) :
     html.val.els[i].obf.ok /\ ToLowerCase(html.val.els[i].tag) \in options.allowedTags}

\* no element is transformed when none qualifies and none carried a payload
NoTagByDisallowed ==
  (Qualifying = {} /\ ~HasPayload(html.val.els)) => modifiedHtml.val.meta = html.val.meta

\* C10, as claimed: an element that carries data-obfuscation on a tag that is
\* not allowed has the same markup, with all its descendants, after modifyHtml
\* as before, and such elements alone cause no metadata tag.
C10_WhitelistEnforced ==
  modifiedHtml.ok =>
    /\ \A i \in Disallowed :
         OuterHtml(modifiedHtml.val.els, i) = OuterHtml(html.val.els, i)
    /\ NoTagByDisallowed

\* element j lies inside an element that carries data-obfuscation on an
\* allowed tag
InsideQualifying(j) == \E q \in Qualifying : IsDescendant(html.val.els, q, j)

\* C10, amended: such an element, when it does not lie inside an element that
\* carries data-obfuscation on an allowed tag, stays in the document with its
\* own attributes and text, and so does each of its descendants that neither
\* carries data-obfuscation on an allowed tag nor lies inside a descendant
\* that does; such elements alone cause no metadata tag.
C10_WhitelistEnforcedOutsideQualifying ==
  modifiedHtml.ok =>
    /\ \A i \in Disallowed :
         ~InsideQualifying(i) =>
           /\ modifiedHtml.val.els[i] = html.val.els[i]
           /\ \A j \in 1..Len(html.val.els) :
                (IsDescendant(html.val.els, i, j) /\ j \notin Qualifying /\ ~InsideQualifying(j))
                  => modifiedHtml.val.els[j] = html.val.els[j]
    /\ NoTagByDisallowed

\* C10: an element on a tag that is not allowed was skipped and kept its
\* attributes and text, while a qualifying element inside it was transformed
C10_SkippedAroundTransformed ==
  /\ modifiedHtml.ok
  /\ \E i \in Disallowed :
       /\ modifiedHtml.val.els[i] = html.val.els[i]
       /\ \E j \in TransformedElements : IsDescendant(html.val.els, i, j)

\* C11: resolved method persistence.  Every element that modifyHtml has
\* transformed carries a data-obfuscation value of "1", "2" or "3"; when the
\* input value was one of these the output value is the same; and the payloads
\* are what the method of that value returns for the inner markup and the href
\* of the input.
C11_ResolvedMethodPersisted ==
  modifiedHtml.ok =>
    \A i \in TransformedElements :
      LET e == html.val.els[i]
          out == modifiedHtml.val.els[i]
      IN /\ out.obf.ok /\ out.obf.val \in ValidTypes
         /\ (e.obf.val \in ValidTypes) => out.obf = e.obf
         /\ out.d7391 = Encrypt(out.obf.val, InnerHtml(html.val.els, i), key, salt)
         /\ (e.href.ok /\ e.href.val # <<>>)
              => out.d5647 = Encrypt(out.obf.val, e.href.val, key, salt)

\* C11: an element marked "0" was given method "3" and an element marked "2"
\* kept method "2"
C11_DrawnAndRequested ==
  /\ modifiedHtml.ok
  /\ \E i, j \in TransformedElements :
       /\ html.val.els[i].obf = Some("0") /\ modifiedHtml.val.els[i].obf = Some("3")
       /\ html.val.els[j].obf = Some("2") /\ modifiedHtml.val.els[j].obf = Some("2")

\* encrypt returns no payload for the inner markup or for the href of element
\* i, under a method that modifyHtml may use for it
EncodeFailure(i) ==
  LET e == html.val.els[i]
      NoPayload(r) == ~r.ok \/ r.val = <<>>
      methods == IF e.obf.val \in ValidTypes THEN {e.obf.val} ELSE ValidTypes
  IN \E m \in methods :
       \/ NoPayload(Encrypt(m, InnerHtml(html.val.els, i), key, salt))
       \/ /\ e.href.ok /\ e.href.val # <<>>
          /\ NoPayload(Encrypt(m, e.href.val, key, salt))

\* element i has in the output the children, attributes and text of the input
InOriginalForm(i) ==
  /\ [modifiedHtml.val.els[i] EXCEPT !.detached = FALSE]
       = [html.val.els[i] EXCEPT !.detached = FALSE]
  /\ \A j \in 1..Len(html.val.els) :
       html.val.els[j].parent = i =>
         modifiedHtml.val.els[j].detached = html.val.els[j].detached

\* C16: per-element encode failure.  A qualifying element for which encoding
\* the inner markup or the href fails keeps its children, its href and its
\* data-obfuscation value and gets no payload attribute, and every other
\* qualifying element of the document is still transformed.
C16_EncodeFailureIsolated ==
  modifiedHtml.ok =>
    \A i \in Qualifying :
      /\ EncodeFailure(i) => InOriginalForm(i)
      /\ ~EncodeFailure(i) => i \in TransformedElements

\* C16: encoding failed for one qualifying element, which is in its original
\* form, and an element after it in the document was transformed
C16_FailedBeforeTransformed ==
  /\ modifiedHtml.ok
  /\ \E i \in Qualifying :
       /\ EncodeFailure(i) /\ InOriginalForm(i)
       /\ \E j \in TransformedElements : j > i

C25_OneMethodPerElement ==
  modifiedHtml.ok =>
    \A i \in TransformedElements :
      LET e == html.val.els[i]
          out == modifiedHtml.val.els[i]
      IN (e.href.ok /\ e.href.val # <<>>) =>
           \A m \in ValidTypes :
             /\ (m = out.obf.val) <=>
                  out.d7391 = Encrypt(m, InnerHtml(html.val.els, i), key, salt)
             /\ (m = out.obf.val) <=> out.d5647 = Encrypt(m, e.href.val, key, salt)

\* C25: a link marked "0" drew method "2", and its href payload and its
\* content payload are those of method 2
C25_DrawnMethodForBoth ==
  /\ modifiedHtml.ok
  /\ \E i \in TransformedElements :
       /\ html.val.els[i].obf = Some("0") /\ html.val.els[i].href.ok
       /\ modifiedHtml.val.els[i].obf = Some("2")
       /\ modifiedHtml.val.els[i].d5647 = Encrypt2(html.val.els[i].href.val, key)
       /\ modifiedHtml.val.els[i].d7391 = Encrypt2(InnerHtml(html.val.els, i), key)

\* C22, as claimed: an element without data-obfuscation is in the output
\* document with the attributes, the href and the text of the input, and has
\* received no payload attribute.
C22_UnmarkedUntouched ==
  modifiedHtml.ok =>
    \A i \in 1..Len(html.val.els) :
      ~html.val.els[i].obf.ok =>
        /\ modifiedHtml.val.els[i] = html.val.els[i]
        /\ InDocument(modifiedHtml.val.els, i)

\* C22, amended: an element without data-obfuscation is never transformed: it
\* keeps its attributes, its href and its text and receives no payload
\* attribute and no fallback node.  It stays in the output document unless it
\* lies inside an element that was transformed; in that case it has left the
\* document with the other children of that element, whose inner markup the
\* content payload holds.
C22_UnmarkedOutsideTransformed ==
  modifiedHtml.ok =>
    \A i \in 1..Len(html.val.els) :
      ~html.val.els[i].obf.ok =>
        /\ [modifiedHtml.val.els[i] EXCEPT !.detached = FALSE] = html.val.els[i]
        /\ i \notin TransformedElements
        /\ InDocument(modifiedHtml.val.els, i)
             <=> ~\E q \in TransformedElements : IsDescendant(html.val.els, q, i)

\* C22: a link without data-obfuscation inside a transformed element has left
\* the document, and the content payload of that element is the encoding of
\* the markup that held the link
C22_UnmarkedInsideTransformed ==
  /\ modifiedHtml.ok
  /\ \E q \in TransformedElements, i \in 1..Len(html.val.els) :
       /\ ~html.val.els[i].obf.ok /\ html.val.els[i].href.ok
       /\ html.val.els[i].parent = q
       /\ ~InDocument(modifiedHtml.val.els, i)
       /\ modifiedHtml.val.els[q].d7391
            = Encrypt(modifiedHtml.val.els[q].obf.val, InnerHtml(html.val.els, q), key, salt)

----------------------------------------------------------------------------
(* Claims on the client script, checked under SpecPage.                    *)

\* the elements of the rendered page that carry data-7391
Marked ==
  {i \in 1..Len(document.val.els) :
     InDocument(document.val.els, i) /\ document.val.els[i].d7391.ok}

\* C8: idempotent runtime activation.  After a decode pass that decoded the
\* page no element carries data-7391, and a second decode pass on the same
\* page instance writes nothing to the DOM.
C8_SecondPassIdle ==
  document.ok =>
    /\ (passes >= 1 /\ mutations > 0) => Marked = {}
    /\ passes >= 2 => mutations = 0

\* C9: the decoder state machine.  It starts Pending, a decode pass leaves it
\* Decoded, and over any sequence of DOMContentLoaded and astro:page-load
\* events at most one decode pass runs on one rendered page instance.
C9_OnePassPerInstance ==
  /\ (document.ok /\ events = 0) => ~decryptionPerformed
  /\ passes >= 1 => decryptionPerformed
  /\ passes <= 1

\* the elements of the served page that modifyHtml has transformed
TransformedOnPage ==
  {i \in 1..Len(modifiedHtml.val.els) :
     InDocument(modifiedHtml.val.els, i) /\ modifiedHtml.val.els[i].noscript.ok}

\* element i of the rendered page is as it was served
Untouched(i) == document.val.els[i] = modifiedHtml.val.els[i]

\* element i of the rendered page has no fallback node and has the inner
\* markup and the href that it had before modifyHtml
Restored(i) ==
  /\ ~document.val.els[i].noscript.ok
  /\ InnerHtml(document.val.els, i) = InnerHtml(html.val.els, i)
  /\ document.val.els[i].href = html.val.els[i].href

\* C13: end-to-end restoration without corruption.  Every element that
\* modifyHtml has transformed is, after any decode passes of the client,
\* either as it was served or without its fallback node and with exactly the
\* inner markup and the href of the original.
C13_RestoredOrUntouched ==
  document.ok => \A i \in TransformedOnPage : Untouched(i) \/ Restored(i)

\* C13: a decode pass has restored an element that was encoded by method 3
C13_Method3Restored ==
  /\ document.ok /\ passes >= 1
  /\ \E i \in TransformedOnPage :
       modifiedHtml.val.els[i].obf = Some("3") /\ Restored(i)

\* C20, as claimed: for the element of Scenario A method 1 encodes the
\* contact into a hex string of length 34, and the decode pass restores the
\* href and the inner text.
C20_ScenarioA ==
  html = Some(ScenarioA) =>
    /\ modifiedHtml.ok =>
         /\ modifiedHtml.val.els[1].obf = Some("1")
         /\ modifiedHtml.val.els[1].d7391.ok
         /\ Len(modifiedHtml.val.els[1].d7391.val) = 34
    /\ (document.ok /\ passes >= 1) => Restored(1)

\* C20, amended: method 1 encodes the inner text, of 16 bytes, into 32
\* hexadecimal digits and the href, of 23 bytes, into 46, and the decode pass
\* restores the href and the inner text.
C20_ScenarioAByLength ==
  LET HexOfBytes(p, n) ==
        p.ok /\ Len(p.val) = 2 * n /\ \A i \in 1..Len(p.val) : HexVal(p.val[i]) >= 0
  IN
  html = Some(ScenarioA) =>
    /\ modifiedHtml.ok =>
         /\ modifiedHtml.val.els[1].obf = Some("1")
         /\ HexOfBytes(modifiedHtml.val.els[1].d7391, Len(ScenarioA.els[1].text))
         /\ Len(modifiedHtml.val.els[1].d7391.val) = 32
         /\ HexOfBytes(modifiedHtml.val.els[1].d5647, Len(ScenarioA.els[1].href.val))
         /\ Len(modifiedHtml.val.els[1].d5647.val) = 46
    /\ (document.ok /\ passes >= 1) =>
         /\ Restored(1)
         /\ document.val.els[1].href = Some(SubSeq(LongText, 1, 23))
         /\ document.val.els[1].text = SubSeq(LongText, 24, 39)

\* C20: the element of Scenario A was encoded under a generated key and a
\* decode pass has restored it
C20_ScenarioADecoded ==
  /\ html = Some(ScenarioA) /\ key \in GeneratedKeys
  /\ document.ok /\ passes >= 1 /\ mutations > 0
  /\ Restored(1)

----------------------------------------------------------------------------
(* Claims on the client script, checked under SpecRuntime.                 *)

\* C14: run-time abort on missing secrets.  When the page holds marked
\* elements and its metadata tag is absent or has an empty value, every decode
\* pass leaves the page as it was served and writes nothing to the DOM.
C14_AbortWithoutSecrets ==
  (/\ document.ok /\ Marked # {}
   /\ (document.val.meta = <<>> \/ document.val.meta[1] = <<>>))
    => (document = modifiedHtml /\ mutations = 0)

\* C14: two decode passes have run on a page of marked elements whose
\* metadata tag has an empty value, and have left it as it was served
C14_PassesOnEmptyTag ==
  /\ document.ok /\ passes >= 2 /\ Marked # {}
  /\ document.val.meta = <<<<>>>>
  /\ document = modifiedHtml

\* decoding the content payload or the href payload of element i of the
\* served page returns no result
DecodeFails(i) ==
  LET el == modifiedHtml.val.els[i]
      ks == getKeyAndSalt(modifiedHtml.val)
      NoResult(r) == ~r.ok \/ r.val = <<>>
  IN \/ NoResult(Decrypt(el.obf.val, el.d7391.val, ks.key.val, ks.salt.val))
     \/ /\ el.d5647.ok /\ el.d5647.val # <<>>
        /\ NoResult(Decrypt(el.obf.val, el.d5647.val, ks.key.val, ks.salt.val))

\* C15: per-element run-time decode failure.  After a decode pass on a page
\* with its secrets, a marked element whose content payload or href payload
\* does not decode is as it was served, every other marked element is
\* decoded, and no element has decoded inner markup while its href payload is
\* not decoded.
C15_DecodeFailureIsolated ==
  (document.ok /\ passes >= 1 /\ ~NoKey(getKeyAndSalt(document.val))) =>
    \A i \in Marked :
      /\ DecodeFails(i) => document.val.els[i] = modifiedHtml.val.els[i]
      /\ ~DecodeFails(i) => ~document.val.els[i].noscript.ok
      /\ ~document.val.els[i].noscript.ok =>
           (document.val.els[i].d5647.ok => document.val.els[i].href.ok)

\* C15: the content payload of one marked element did not decode and the
\* element is as it was served, while another marked element is decoded
C15_FailedBesideDecoded ==
  /\ document.ok /\ passes >= 1
  /\ \E i, j \in Marked :
       /\ modifiedHtml.val.els[i].d7391 = Some(<<33>>)
       /\ document.val.els[i] = modifiedHtml.val.els[i]
       /\ ~document.val.els[j].noscript.ok

\* C23: decoded only after success.  When a decode pass has run on the page
\* and the decoder is in Decoded (decryptionPerformed is set) while the page
\* still holds marked elements, the pass was not one that aborted for a
\* metadata tag that is absent or empty.
C23_DecodedOnlyAfterSuccess ==
  (document.ok /\ passes >= 1 /\ decryptionPerformed /\ Marked # {})
    => ~NoKey(getKeyAndSalt(document.val))

\* C23: the first pass aborted on a page without metadata tag, and a second
\* page-ready event was delivered without a pass being run
C23_NoPassAfterAbort ==
  /\ document.ok /\ Marked # {} /\ document.val.meta = <<>>
  /\ events = 2 /\ passes = 1 /\ mutations = 0
  /\ decryptionPerformed

\* C26: state idempotence of the decode pass.  A decode pass that runs on a
\* page instance on which a pass has already run leaves every element, and so
\* the document, in the state it found, whatever it writes to the DOM.
C26_SecondPassSameState ==
  [][(document.ok /\ passes >= 1 /\ passes' = passes + 1) => document' = document]_vars

\* C26: a second pass has written to the DOM of a page on which a link is
\* decoded: it has its href and no fallback node
C26_SecondPassWrote ==
  /\ document.ok /\ passes = 2 /\ mutations > 0
  /\ \E i \in Marked :
       /\ ~document.val.els[i].noscript.ok
       /\ document.val.els[i].href.ok
       /\ document.val.els[i].text # <<>>

\* C29: closed run-time dispatch.  An element of the served page that carries
\* data-7391 and whose data-obfuscation value is missing or is not "1", "2" or
\* "3" is, after any decode passes, as it was served.
C29_ClosedDispatch ==
  document.ok =>
    \A i \in Marked :
      (~modifiedHtml.val.els[i].obf.ok \/ modifiedHtml.val.els[i].obf.val \notin ValidTypes)
        => document.val.els[i] = modifiedHtml.val.els[i]

\* C29: a pass has decoded one element and has left as served an element
\* whose data-obfuscation value is "0"
C29_UnknownTypeSkipped ==
  /\ document.ok /\ passes >= 1 /\ mutations > 0
  /\ \E i, j \in Marked :
       /\ modifiedHtml.val.els[i].obf = Some("0")
       /\ document.val.els[i] = modifiedHtml.val.els[i]
       /\ ~document.val.els[j].noscript.ok

====
